---- MODULE Spec2Model ----
(* Model of the self-hosted Sentry MCP server (src/src/index.ts):           *)
(* start-up configuration, the argument validators, getIssueId and the      *)
(* CallToolRequestSchema handler with its catch block.                      *)
(* JavaScript strings are sequences of tokens; a token stands for a run of  *)
(* characters ("issues", "/", a digit, a literal piece of a template).      *)
EXTENDS Integers, Sequences, FiniteSets, TLC

\* ---------------------------------------------------------------- bounds
MaxRefLen == 6
MaxSlashes == 2

\* ------------------------------------------------------- JavaScript values
Undefined == [t |-> "undefined", s |-> <<>>]
Null == [t |-> "null", s |-> <<>>]
Num == [t |-> "number", s |-> <<>>]
Str(s) == [t |-> "string", s |-> s]

Typeof(v) == IF v.t = "null" THEN "object" ELSE v.t

Falsy(v) == v.t \in {"undefined", "null"} \/ (v.t = "string" /\ v.s = <<>>)

Truthy(v) == ~Falsy(v)

OrElse(a, b) == IF Truthy(a) THEN a ELSE b

SeqsUpTo(S, n) == UNION {[1..k -> S] : k \in 0..n}

Range(s) == {s[i] : i \in 1..Len(s)}

Contains(text, sub) ==
  \E i \in 0..(Len(text) - Len(sub)) : SubSeq(text, i + 1, i + Len(sub)) = sub

\* ------------------------------------------------------------------ URLs
Scheme == "https://h"
Digits == {"1", "2", "4"}

FirstIndex(s, S) ==
  IF \E i \in 1..Len(s) : s[i] \in S
    THEN CHOOSE i \in 1..Len(s) : s[i] \in S /\ \A j \in 1..(i - 1) : s[j] \notin S
    ELSE 0

\* new URL(input) succeeds only on an absolute URL
URLParses(input) == Len(input) > 0 /\ input[1] = Scheme

\* url.pathname: from the first "/" after the authority up to the query or
\* fragment; "/" when the URL has no path
pathname(input) ==
  LET rest == Tail(input)
      cut == FirstIndex(rest, {"?", "#"})
      beforeQ == IF cut = 0 THEN rest ELSE SubSeq(rest, 1, cut - 1)
      slash == FirstIndex(beforeQ, {"/"})
  IN IF slash = 0 THEN <<"/">> ELSE SubSeq(beforeQ, slash, Len(beforeQ))

RECURSIVE split(_)
split(s) ==
  LET i == FirstIndex(s, {"/"})
  IN IF i = 0 THEN <<s>>
     ELSE <<SubSeq(s, 1, i - 1)>> \o split(SubSeq(s, i + 1, Len(s)))

\* Array.prototype.indexOf, 0-based, -1 when absent
indexOf(parts, x) ==
  IF \E i \in 1..Len(parts) : parts[i] = x
    THEN (CHOOSE i \in 1..Len(parts) :
            parts[i] = x /\ \A j \in 1..(i - 1) : parts[j] # x) - 1
    ELSE -1

\* parts[j] with a 0-based index
At(parts, j) == parts[j + 1]

\* /^\d+$/.test(s)
IsDigits(s) == Len(s) > 0 /\ \A i \in 1..Len(s) : s[i] \in Digits

getIssueId(input) ==
  IF URLParses(input)
    THEN LET pathParts == split(pathname(input))
             issuesIndex == indexOf(pathParts, <<"issues">>)
         IN IF issuesIndex # -1 /\ Len(pathParts) > issuesIndex + 1
              THEN LET potentialId == At(pathParts, issuesIndex + 1)
                   IN IF IsDigits(potentialId) THEN Str(potentialId) ELSE Null
              ELSE Null
    ELSE IF IsDigits(input) THEN Str(input) ELSE Null

\* ------------------------------------------------------------------ JSON
\* A JSON value: k is its kind, s the text of a number or string, items the
\* members of an array or object (key is "" in an array).
JNull == [k |-> "null", s |-> "", items |-> <<>>]
JNum(n) == [k |-> "number", s |-> n, items |-> <<>>]
JStr(x) == [k |-> "string", s |-> x, items |-> <<>>]
JArr(vals) == [k |-> "array", s |-> "",
               items |-> [i \in 1..Len(vals) |-> [key |-> "", val |-> vals[i]]]]
JObj(members) == [k |-> "object", s |-> "", items |-> members]
Member(key, val) == [key |-> key, val |-> val]

Indent == 2

Spaces(n) == [i \in 1..n |-> " "]

Newline(indent, level) ==
  IF indent > 0 THEN <<"\n">> \o Spaces(indent * level) ELSE <<>>

\* JSON.stringify(value, null, indent); indent 0 is the compact form
RECURSIVE stringify(_, _, _)
RECURSIVE stringifyItems(_, _, _, _)
stringify(v, indent, level) ==
  CASE v.k = "null" -> <<"null">>
    [] v.k = "number" -> <<v.s>>
    [] v.k = "string" -> <<"\"", v.s, "\"">>
    [] v.k = "array" ->
         IF v.items = <<>> THEN <<"[", "]">>
         ELSE <<"[">> \o stringifyItems(v, indent, level + 1, 1)
                \o Newline(indent, level) \o <<"]">>
    [] v.k = "object" ->
         IF v.items = <<>> THEN <<"{", "}">>
         ELSE <<"{">> \o stringifyItems(v, indent, level + 1, 1)
                \o Newline(indent, level) \o <<"}">>

stringifyItems(v, indent, level, i) ==
  IF i > Len(v.items) THEN <<>>
  ELSE (IF i > 1 THEN <<",">> ELSE <<>>)
       \o Newline(indent, level)
       \o (IF v.k = "object"
             THEN <<"\"", v.items[i].key, "\"", ":">>
                  \o (IF indent > 0 THEN <<" ">> ELSE <<>>)
             ELSE <<>>)
       \o stringify(v.items[i].val, indent, level)
       \o stringifyItems(v, indent, level, i + 1)

\* ------------------------------------------------------------ validators
FieldNames == {"issue_id_or_url", "project_slug", "query", "status",
               "event_id", "issue_id", "comment_text", "extra"}

StatusEnum == {<<"resolved">>, <<"ignored">>, <<"unresolved">>}

IsObject(args) == Typeof(args) = "object" /\ args.t # "null"

isValidGetIssueArgs(args) ==
  IsObject(args) /\ Typeof(args.f.issue_id_or_url) = "string"

isValidListIssuesArgs(args) ==
  /\ IsObject(args)
  /\ Typeof(args.f.project_slug) = "string"
  /\ (args.f.query = Undefined \/ Typeof(args.f.query) = "string")
  /\ (args.f.status = Undefined \/ Typeof(args.f.status) = "string")

isValidGetEventArgs(args) ==
  /\ IsObject(args)
  /\ Typeof(args.f.project_slug) = "string"
  /\ Typeof(args.f.event_id) = "string"

isValidUpdateIssueArgs(args) ==
  /\ IsObject(args)
  /\ Typeof(args.f.issue_id) = "string"
  /\ Typeof(args.f.status) = "string"
  /\ args.f.status.s \in StatusEnum

isValidCreateCommentArgs(args) ==
  /\ IsObject(args)
  /\ Typeof(args.f.issue_id) = "string"
  /\ Typeof(args.f.comment_text) = "string"

\* ------------------------------------------------- start-up configuration
endsWith(str, tok) == Len(str) > 0 /\ str[Len(str)] = tok

\* line 41: one trailing "/" is sliced off
BaseUrlOf(url) == IF endsWith(url, "/") THEN SubSeq(url, 1, Len(url) - 1) ELSE url

\* axios.create({ baseURL: `${SENTRY_BASE_URL}/api/0/` })
AxiosBaseURL(base) == base \o <<"/api/0/">>

\* ------------------------------------------------------ handler outcomes
NoBody == [key |-> "", val |-> <<>>]

Throw(code, message) ==
  [kind |-> "throw", code |-> code, message |-> message, method |-> "",
   path |-> <<>>, params |-> Undefined, body |-> NoBody]

Call(method, path, params, body) ==
  [kind |-> "call", code |-> "", message |-> <<>>, method |-> method,
   path |-> path, params |-> params, body |-> body]

McpError(code, message) ==
  [type |-> "mcp", code |-> code, message |-> message, hasResponse |-> FALSE,
   status |-> 0, data |-> JNull]

AxiosError(message, hasResponse, status, data) ==
  [type |-> "axios", code |-> "", message |-> message,
   hasResponse |-> hasResponse, status |-> status, data |-> data]

NoResult ==
  [kind |-> "none", code |-> "", message |-> <<>>, content |-> <<>>,
   isError |-> "undefined"]

Fault(error) ==
  [kind |-> "fault", code |-> error.code, message |-> error.message,
   content |-> <<>>, isError |-> "undefined"]

\* { content: [{ type: 'text', text: JSON.stringify(response.data, null, 2) }] }
SuccessEnvelopeCompact(data) ==
  [kind |-> "envelope", code |-> "", message |-> <<>>,
   content |-> <<[type |-> "text", text |-> stringify(data, 0, 0)]>>,
   isError |-> "undefined"]

SuccessEnvelope(data) ==
  [kind |-> "envelope", code |-> "", message |-> <<>>,
   content |-> <<[type |-> "text", text |-> stringify(data, Indent, 0)]>>,
   isError |-> "undefined"]

\* { content: [{ type: 'text', text: errorMessage }], isError: true }
ErrorEnvelopeNoFlag(errorMessage) ==
  [kind |-> "envelope", code |-> "", message |-> <<>>,
   content |-> <<[type |-> "text", text |-> errorMessage]>>,
   isError |-> "undefined"]

ErrorEnvelope(errorMessage) ==
  [kind |-> "envelope", code |-> "", message |-> <<>>,
   content |-> <<[type |-> "text", text |-> errorMessage]>>,
   isError |-> "true"]

\* ------------------------------------------------------- per-tool branches
ToolNames == {"get_sentry_issue", "list_sentry_projects", "list_sentry_issues",
              "get_sentry_event_details", "update_sentry_issue_status",
              "create_sentry_issue_comment"}

GetIssueBranchNoIdCheck(args) ==
  IF ~isValidGetIssueArgs(args)
    THEN Throw("InvalidParams", <<"Invalid args for ", "get_sentry_issue", ".">>)
    ELSE LET issueId == getIssueId(args.f.issue_id_or_url.s)
         IN Call("GET", <<"issues/">> \o issueId.s \o <<"/">>, Undefined, NoBody)

GetIssueBranch(args) ==
  IF ~isValidGetIssueArgs(args)
    THEN Throw("InvalidParams", <<"Invalid args for ", "get_sentry_issue", ".">>)
    ELSE LET issueId == getIssueId(args.f.issue_id_or_url.s)
         IN IF Falsy(issueId)
              THEN Throw("InvalidParams",
                         <<"Could not extract issue ID from: ">> \o args.f.issue_id_or_url.s)
              ELSE Call("GET", <<"issues/">> \o issueId.s \o <<"/">>, Undefined, NoBody)

ListProjectsBranch(org) ==
  Call("GET", <<"organizations/">> \o org \o <<"/projects/">>, Undefined, NoBody)

\* lines 185-187: params.query
ListIssuesParamsNoSpace(args) ==
  LET q1 == IF Truthy(args.f.query) THEN args.f.query ELSE Undefined
  IN IF Truthy(args.f.status)
       THEN Str((IF Truthy(q1) THEN q1.s ELSE <<>>) \o <<"is:">> \o args.f.status.s)
       ELSE q1

ListIssuesParams(args) ==
  LET q1 == IF Truthy(args.f.query) THEN args.f.query ELSE Undefined
  IN IF Truthy(args.f.status)
       THEN Str((IF Truthy(q1) THEN q1.s \o <<" ">> ELSE <<>>)
                \o <<"is:">> \o args.f.status.s)
       ELSE q1

ListIssuesBranch(org, args) ==
  IF ~isValidListIssuesArgs(args)
    THEN Throw("InvalidParams", <<"Invalid args for ", "list_sentry_issues", ".">>)
    ELSE Call("GET", <<"projects/">> \o org \o <<"/">> \o args.f.project_slug.s
                       \o <<"/issues/">>,
              ListIssuesParams(args), NoBody)

GetEventBranch(org, args) ==
  IF ~isValidGetEventArgs(args)
    THEN Throw("InvalidParams", <<"Invalid args for ", "get_sentry_event_details", ".">>)
    ELSE Call("GET", <<"projects/">> \o org \o <<"/">> \o args.f.project_slug.s
                       \o <<"/events/">> \o args.f.event_id.s \o <<"/">>,
              Undefined, NoBody)

UpdateIssueBranchPost(args) ==
  IF ~isValidUpdateIssueArgs(args)
    THEN Throw("InvalidParams", <<"Invalid args for ", "update_sentry_issue_status", ".">>)
    ELSE Call("POST", <<"issues/">> \o args.f.issue_id.s \o <<"/">>, Undefined,
              [key |-> "status", val |-> args.f.status.s])

UpdateIssueBranch(args) ==
  IF ~isValidUpdateIssueArgs(args)
    THEN Throw("InvalidParams", <<"Invalid args for ", "update_sentry_issue_status", ".">>)
    ELSE Call("PUT", <<"issues/">> \o args.f.issue_id.s \o <<"/">>, Undefined,
              [key |-> "status", val |-> args.f.status.s])

CreateCommentBranch(args) ==
  IF ~isValidCreateCommentArgs(args)
    THEN Throw("InvalidParams", <<"Invalid args for ", "create_sentry_issue_comment", ".">>)
    ELSE Call("POST", <<"issues/">> \o args.f.issue_id.s \o <<"/comments/">>, Undefined,
              [key |-> "text", val |-> args.f.comment_text.s])

UnknownToolBranchInvalidParams(toolName) ==
  Throw("InvalidParams", <<"Unknown tool: ", toolName>>)

UnknownToolBranch(toolName) ==
  Throw("MethodNotFound", <<"Unknown tool: ", toolName>>)

\* the if / else-if chain of the try block, up to its first await or throw
TryBlock(toolName, args, org) ==
  CASE toolName = "get_sentry_issue" -> GetIssueBranch(args)
    [] toolName = "list_sentry_projects" -> ListProjectsBranch(org)
    [] toolName = "list_sentry_issues" -> ListIssuesBranch(org, args)
    [] toolName = "get_sentry_event_details" -> GetEventBranch(org, args)
    [] toolName = "update_sentry_issue_status" -> UpdateIssueBranch(args)
    [] toolName = "create_sentry_issue_comment" -> CreateCommentBranch(args)
    [] OTHER -> UnknownToolBranch(toolName)

\* ------------------------------------------------------------ catch block
AxiosErrorMessageRaw404(toolName, error) ==
  LET base == <<"Sentry API error for ", toolName, ": ">> \o error.message
  IN IF ~error.hasResponse THEN base
     ELSE IF error.status >= 400 /\ error.status < 500 /\ error.status \in {401, 403}
       THEN <<"Sentry API ", "permission denied", " for ", toolName,
              ". Check auth token validity and permissions.">>
     ELSE base \o <<" Status: ", ToString(error.status), ". Response: ">>
               \o stringify(error.data, 0, 0)

AxiosErrorMessage(toolName, error) ==
  LET base == <<"Sentry API error for ", toolName, ": ">> \o error.message
  IN IF ~error.hasResponse THEN base
     ELSE IF error.status >= 400 /\ error.status < 500 /\ error.status \in {401, 403}
       THEN <<"Sentry API ", "permission denied", " for ", toolName,
              ". Check auth token validity and permissions.">>
     ELSE IF error.status >= 400 /\ error.status < 500 /\ error.status = 404
       THEN <<"Sentry resource ", "not found", " for ", toolName, ". Check IDs/slugs.">>
     ELSE base \o <<" Status: ", ToString(error.status), ". Response: ">>
               \o stringify(error.data, 0, 0)

CatchBlock(toolName, error) ==
  IF error.type = "axios" THEN ErrorEnvelope(AxiosErrorMessage(toolName, error))
  ELSE IF error.type = "mcp" THEN Fault(error)
  ELSE ErrorEnvelope(error.message)

\* ------------------------------------------------------------------ state
VARIABLES pc, SENTRY_URL, SENTRY_AUTH_TOKEN, SENTRY_ORG_SLUG, SENTRY_BASE_URL,
          baseURL, request, calls, reply, result

vars == <<pc, SENTRY_URL, SENTRY_AUTH_TOKEN, SENTRY_ORG_SLUG, SENTRY_BASE_URL,
          baseURL, request, calls, reply, result>>

config == <<SENTRY_URL, SENTRY_AUTH_TOKEN, SENTRY_ORG_SLUG, SENTRY_BASE_URL, baseURL>>

\* ----------------------------------------------------------------- inputs
Slashes(k) == [i \in 1..k |-> "/"]

UrlSettings ==
  {Undefined, Str(<<>>), Str(<<"sentry.local">>)}
    \cup {Str(<<Scheme>> \o Slashes(k)) : k \in 0..MaxSlashes}

TokenSettings == {Undefined, Str(<<"t">>)}

OrgSettings == {Undefined, Str(<<"o">>)}

RefTokens == {"/", "issues", "1", "x"}

ExtraRefs ==
  { <<"4", "2">>,
    <<Scheme, "/", "issues", "/", "4", "2", "?", "x">>,
    <<Scheme, "?", "/", "issues", "/", "1">>,
    <<Scheme, "/", "x", "#", "/", "issues", "/", "1">>,
    <<Scheme, "/", "issues", "/", "1", "/", "events", "/", "2", "/">>,
    <<Scheme, "/", "organizations", "/", "o", "/", "issues", "/", "4", "2", "/">>,
    <<Scheme, "/", "organizations", "/", "issues", "/", "issues", "/", "4", "2", "/">> }

RefInputs ==
  {p \o r : p \in {<<>>, <<Scheme>>}, r \in SeqsUpTo(RefTokens, MaxRefLen)}
    \cup ExtraRefs

EmptyFields == [n \in FieldNames |-> Undefined]

NonObjectBags == {[t |-> k, f |-> EmptyFields] : k \in {"undefined", "null", "string"}}

ObjectBag(fields) ==
  [t |-> "object",
   f |-> [n \in FieldNames |-> IF n \in DOMAIN fields THEN fields[n] ELSE Undefined]]

Extras == {Undefined, Str(<<"z">>)}

BagsFor(name) ==
  NonObjectBags \cup
  CASE name = "get_sentry_issue" ->
         {ObjectBag([issue_id_or_url |-> v]) :
            v \in {Undefined, Num} \cup {Str(r) : r \in RefInputs}}
    [] name = "list_sentry_issues" ->
         {ObjectBag([project_slug |-> ps, query |-> q, status |-> st, extra |-> ex]) :
            ps \in {Undefined, Num, Str(<<"p">>)},
            q \in {Undefined, Num, Str(<<>>), Str(<<"environment:prod">>)},
            st \in {Undefined, Num, Str(<<>>), Str(<<"bogus">>)}
                     \cup {Str(e) : e \in StatusEnum},
            ex \in Extras}
    [] name = "get_sentry_event_details" ->
         {ObjectBag([project_slug |-> ps, event_id |-> ev, extra |-> ex]) :
            ps \in {Undefined, Num, Str(<<"p">>)},
            ev \in {Undefined, Num, Str(<<"e">>)},
            ex \in Extras}
    [] name = "update_sentry_issue_status" ->
         {ObjectBag([issue_id |-> id, status |-> st, extra |-> ex]) :
            id \in {Undefined, Num, Str(<<"1">>)},
            st \in {Undefined, Num, Str(<<>>), Str(<<"bogus">>)}
                     \cup {Str(e) : e \in StatusEnum},
            ex \in Extras}
    [] name = "create_sentry_issue_comment" ->
         {ObjectBag([issue_id |-> id, comment_text |-> ct, extra |-> ex]) :
            id \in {Undefined, Num, Str(<<"1">>)},
            ct \in {Undefined, Num, Str(<<>>), Str(<<"c">>)},
            ex \in Extras}
    [] OTHER -> {ObjectBag([extra |-> ex]) : ex \in Extras}

RequestNames == ToolNames \cup {"delete_sentry_issue", "GET_SENTRY_ISSUE", ""}

Requests == UNION {{[name |-> n, args |-> a] : a \in BagsFor(n)} : n \in RequestNames}

ExampleBody == JObj(<<Member("id", JStr("1"))>>)

JsonBodies ==
  { ExampleBody, JNull, JStr(""), JArr(<<>>), JObj(<<>>),
    JArr(<<JObj(<<Member("id", JStr("1")), Member("count", JNum("3"))>>), JNull>>) }

ErrorBodies ==
  { JObj(<<Member("detail", JStr("not found"))>>), JStr("not found"), JStr("") }

Statuses == {400, 401, 403, 404, 429, 500, 503}

AxiosErrors ==
  {AxiosError(m, FALSE, 0, JNull) :
     m \in {<<"Network Error">>, <<"timeout of 20000ms exceeded">>}}
    \cup {AxiosError(<<"Request failed with status code ", ToString(st)>>, TRUE, st, d) :
            st \in Statuses, d \in ErrorBodies}

NoRequest == [name |-> "", args |-> [t |-> "undefined", f |-> EmptyFields]]

NoReply == [kind |-> "none", data |-> JNull, error |-> AxiosError(<<>>, FALSE, 0, JNull)]

\* ---------------------------------------------------------------- actions
Init ==
  /\ pc = "boot"
  /\ SENTRY_URL = Undefined
  /\ SENTRY_AUTH_TOKEN = Undefined
  /\ SENTRY_ORG_SLUG = Undefined
  /\ SENTRY_BASE_URL = <<>>
  /\ baseURL = <<>>
  /\ request = NoRequest
  /\ calls = <<>>
  /\ reply = NoReply
  /\ result = NoResult

\* lines 24-39: the three settings are resolved, then checked
ConfigOk(url, token, org) ==
  Truthy(url) /\ Truthy(token) /\ Truthy(org) /\ URLParses(url.s)

\* lines 24-42 and 91-95 with a complete configuration
Startup ==
  /\ pc = "boot"
  /\ \E envUrl \in UrlSettings, rcUrl \in UrlSettings,
        envToken \in TokenSettings, rcToken \in TokenSettings,
        envOrg \in OrgSettings, rcOrg \in OrgSettings :
       LET url == OrElse(envUrl, rcUrl)
           token == OrElse(envToken, rcToken)
           org == OrElse(envOrg, rcOrg)
       IN /\ ConfigOk(url, token, org)
          /\ SENTRY_URL' = url
          /\ SENTRY_AUTH_TOKEN' = token
          /\ SENTRY_ORG_SLUG' = org
          /\ SENTRY_BASE_URL' = BaseUrlOf(url.s)
          /\ baseURL' = AxiosBaseURL(BaseUrlOf(url.s))
  /\ pc' = "idle"
  /\ UNCHANGED <<request, calls, reply, result>>

\* lines 30-39: a missing setting or an unparsable URL throws at module load
StartupFails ==
  /\ pc = "boot"
  /\ \E envUrl \in UrlSettings, rcUrl \in UrlSettings,
        envToken \in TokenSettings, rcToken \in TokenSettings,
        envOrg \in OrgSettings, rcOrg \in OrgSettings :
       LET url == OrElse(envUrl, rcUrl)
           token == OrElse(envToken, rcToken)
           org == OrElse(envOrg, rcOrg)
       IN /\ ~ConfigOk(url, token, org)
          /\ SENTRY_URL' = url
          /\ SENTRY_AUTH_TOKEN' = token
          /\ SENTRY_ORG_SLUG' = org
  /\ pc' = "failed"
  /\ UNCHANGED <<SENTRY_BASE_URL, baseURL, request, calls, reply, result>>

\* lines 167-208: the handler runs up to its await, or throws into the catch
CallTool ==
  /\ pc = "idle"
  /\ \E req \in Requests :
       LET effect == TryBlock(req.name, req.args, SENTRY_ORG_SLUG.s)
       IN /\ request' = req
          /\ reply' = NoReply
          /\ IF effect.kind = "call"
               THEN /\ calls' = <<[method |-> effect.method, path |-> effect.path,
                                   params |-> effect.params, body |-> effect.body]>>
                    /\ result' = NoResult
                    /\ pc' = "awaiting"
               ELSE /\ calls' = <<>>
                    /\ result' = CatchBlock(req.name, McpError(effect.code, effect.message))
                    /\ pc' = "done"
  /\ UNCHANGED config

\* the awaited request resolves: the branch returns its envelope
UpstreamSuccess ==
  /\ pc = "awaiting"
  /\ \E data \in JsonBodies :
       /\ reply' = [kind |-> "ok", data |-> data, error |-> NoReply.error]
       /\ result' = SuccessEnvelope(data)
  /\ pc' = "done"
  /\ UNCHANGED <<config, request, calls>>

\* the awaited request rejects with an AxiosError: lines 209-234
UpstreamFailure ==
  /\ pc = "awaiting"
  /\ \E error \in AxiosErrors :
       /\ reply' = [kind |-> "error", data |-> error.data, error |-> error]
       /\ result' = CatchBlock(request.name, error)
  /\ pc' = "done"
  /\ UNCHANGED <<config, request, calls>>

\* the handler's promise settles: the transport takes the envelope or the
\* fault, and the request-scoped values are gone
Return ==
  /\ pc = "done"
  /\ pc' = "idle"
  /\ request' = NoRequest
  /\ calls' = <<>>
  /\ reply' = NoReply
  /\ result' = NoResult
  /\ UNCHANGED config

Next ==
  \/ Startup
  \/ StartupFails
  \/ CallTool
  \/ UpstreamSuccess
  \/ UpstreamFailure
  \/ Return

Spec == Init /\ [][Next]_vars

\* ----------------------------------------------------------------- claims
Dispatched == pc \in {"awaiting", "done"}

Registered == request.name \in ToolNames

\* the validator of each row of the tool table (list_sentry_projects has none)
ArgsValid(req) ==
  CASE req.name = "get_sentry_issue" -> isValidGetIssueArgs(req.args)
    [] req.name = "list_sentry_issues" -> isValidListIssuesArgs(req.args)
    [] req.name = "get_sentry_event_details" -> isValidGetEventArgs(req.args)
    [] req.name = "update_sentry_issue_status" -> isValidUpdateIssueArgs(req.args)
    [] req.name = "create_sentry_issue_comment" -> isValidCreateCommentArgs(req.args)
    [] OTHER -> TRUE

NoMatch(req) ==
  /\ req.name = "get_sentry_issue"
  /\ isValidGetIssueArgs(req.args)
  /\ getIssueId(req.args.f.issue_id_or_url.s) = Null

Rejected(req) == ~ArgsValid(req) \/ NoMatch(req)

Text == result.content[1].text

OneTextItem == Len(result.content) = 1 /\ result.content[1].type = "text"

\* C1: a dispatch of a tool name outside the six registered ones ends in a
\* MethodNotFound fault, whatever the argument bag, and issues no upstream call.
C1_UnknownToolIsMethodNotFound ==
  (Dispatched /\ ~Registered) =>
    /\ pc = "done"
    /\ result.kind = "fault"
    /\ result.code = "MethodNotFound"
    /\ calls = <<>>

C1_Witness ==
  /\ pc = "done"
  /\ request.name = "delete_sentry_issue"
  /\ request.args.t = "object"
  /\ result.kind = "fault"

\* C2: a registered tool whose argument bag fails its validator, or whose issue
\* reference does not resolve, ends in an InvalidParams fault and no upstream
\* call has been issued at any point of the dispatch.
C2_RejectedRequestHasNoUpstreamCall ==
  (Dispatched /\ Registered /\ Rejected(request)) =>
    /\ pc = "done"
    /\ result.kind = "fault"
    /\ result.code = "InvalidParams"
    /\ calls = <<>>

C2_Witness ==
  /\ pc = "done"
  /\ NoMatch(request)
  /\ URLParses(request.args.f.issue_id_or_url.s)
  /\ result.kind = "fault"
  /\ calls = <<>>

\* C3: every failed upstream call (no response, or a 4xx/5xx response) is
\* returned as an envelope with exactly one text item and isError = true; a
\* fault arises only from an unknown tool, a validator failure or an
\* unresolvable issue reference.
C3_UpstreamFailureIsEnvelope ==
  /\ (pc = "done" /\ reply.kind = "error") =>
       /\ result.kind = "envelope"
       /\ OneTextItem
       /\ result.isError = "true"
  /\ result.kind = "fault" => (~Registered \/ Rejected(request))

C3_Witness ==
  /\ pc = "done"
  /\ reply.kind = "error"
  /\ reply.error.hasResponse
  /\ reply.error.status = 503
  /\ result.kind = "envelope"

\* C4: an upstream 404 gives isError = true and a text that contains
\* "not found" and the tool's name and not the raw response body.
C4_NotFoundMessage ==
  (pc = "done" /\ reply.kind = "error" /\ reply.error.hasResponse
     /\ reply.error.status = 404) =>
    /\ result.kind = "envelope"
    /\ result.isError = "true"
    /\ "not found" \in Range(Text)
    /\ request.name \in Range(Text)
    /\ ~Contains(Text, stringify(reply.error.data, 0, 0))
    /\ ~Contains(Text, stringify(reply.error.data, Indent, 0))

C4_Witness ==
  /\ pc = "done"
  /\ reply.kind = "error"
  /\ reply.error.status = 404
  /\ reply.error.data.k = "object"
  /\ request.name = "create_sentry_issue_comment"

ExampleText ==
  <<"{", "\n", " ", " ", "\"", "id", "\"", ":", " ", "\"", "1", "\"", "\n", "}">>

C6_StatusInEnumeration ==
  (Dispatched /\ request.name \in {"list_sentry_issues", "update_sentry_issue_status"}
     /\ request.args.f.status # Undefined /\ (ArgsValid(request) \/ calls # <<>>)) =>
    /\ request.args.f.status.t = "string"
    /\ request.args.f.status.s \in StatusEnum

\* the digit segments that directly follow an "issues" segment of the path
IssueSegments(input) ==
  LET pathParts == split(pathname(input))
  IN {pathParts[i + 1] : i \in {j \in 1..(Len(pathParts) - 1) :
         pathParts[j] = <<"issues">> /\ IsDigits(pathParts[j + 1])}}

\* C7: for an absolute URL whose path has an "issues" segment directly followed
\* by a digit segment, getIssueId returns that digit segment, whatever the
\* other segments are.
C7_IssueIdFromUrl ==
  (Dispatched /\ request.name = "get_sentry_issue" /\ isValidGetIssueArgs(request.args)
     /\ URLParses(request.args.f.issue_id_or_url.s)
     /\ IssueSegments(request.args.f.issue_id_or_url.s) # {}) =>
    /\ calls # <<>>
    /\ \E id \in IssueSegments(request.args.f.issue_id_or_url.s) :
         /\ getIssueId(request.args.f.issue_id_or_url.s) = Str(id)
         /\ calls[1].path = <<"issues/">> \o id \o <<"/">>

IsListCall ==
  /\ Dispatched
  /\ request.name = "list_sentry_issues"
  /\ isValidListIssuesArgs(request.args)
  /\ calls # <<>>

QueryParam(q, st, hasQuery, hasStatus) ==
  CASE ~hasQuery /\ ~hasStatus -> Undefined
    [] hasQuery /\ ~hasStatus -> q
    [] ~hasQuery /\ hasStatus -> Str(<<"is:">> \o st.s)
    [] hasQuery /\ hasStatus -> Str(q.s \o <<" ">> \o <<"is:">> \o st.s)

\* C8 (as amended): with a query or status that is the empty string counted as
\* not given, the upstream 'query' parameter of list_sentry_issues is absent
\* when neither is given, the query when only it is given, "is:" + status when
\* only the status is given, and query + " " + "is:" + status when both are.
C8_ListIssuesQuery ==
  IsListCall =>
    calls[1].params =
      QueryParam(request.args.f.query, request.args.f.status,
                 request.args.f.query \notin {Undefined, Str(<<>>)},
                 request.args.f.status \notin {Undefined, Str(<<>>)})

C8_Witness ==
  /\ IsListCall
  /\ request.args.f.query = Str(<<"environment:prod">>)
  /\ request.args.f.status = Str(<<"resolved">>)
  /\ calls[1].params = Str(<<"environment:prod", " ", "is:", "resolved">>)

\* C8 as stated: the same for every string value the validator accepts, a
\* field counting as given whenever it is present.
C8_Original ==
  IsListCall =>
    calls[1].params =
      QueryParam(request.args.f.query, request.args.f.status,
                 request.args.f.query # Undefined,
                 request.args.f.status # Undefined)

\* C9: after a successful start-up the effective base URL does not end in "/".
C9_NoTrailingSlash ==
  pc \notin {"boot", "failed"} =>
    /\ ~endsWith(SENTRY_BASE_URL, "/")
    /\ baseURL = SENTRY_BASE_URL \o <<"/api/0/">>

\* the method and path of each row of the tool table
TableMethod(name) ==
  CASE name = "update_sentry_issue_status" -> "PUT"
    [] name = "create_sentry_issue_comment" -> "POST"
    [] OTHER -> "GET"

TablePath(req, org) ==
  CASE req.name = "get_sentry_issue" ->
         <<"issues/">> \o getIssueId(req.args.f.issue_id_or_url.s).s \o <<"/">>
    [] req.name = "list_sentry_projects" -> <<"organizations/">> \o org \o <<"/projects/">>
    [] req.name = "list_sentry_issues" ->
         <<"projects/">> \o org \o <<"/">> \o req.args.f.project_slug.s \o <<"/issues/">>
    [] req.name = "get_sentry_event_details" ->
         <<"projects/">> \o org \o <<"/">> \o req.args.f.project_slug.s
           \o <<"/events/">> \o req.args.f.event_id.s \o <<"/">>
    [] req.name = "update_sentry_issue_status" ->
         <<"issues/">> \o req.args.f.issue_id.s \o <<"/">>
    [] req.name = "create_sentry_issue_comment" ->
         <<"issues/">> \o req.args.f.issue_id.s \o <<"/comments/">>

\* C10: a dispatch of a registered tool that passes validation and reference
\* resolution issues exactly one upstream call, with the method and path of the
\* tool's row; no dispatch issues a second call, also after a failed one.
C10_ExactlyOneCall ==
  /\ Len(calls) <= 1
  /\ (Dispatched /\ Registered /\ ~Rejected(request)) =>
       /\ Len(calls) = 1
       /\ calls[1].method = TableMethod(request.name)
       /\ calls[1].path = TablePath(request, SENTRY_ORG_SLUG.s)

C10_Witness ==
  /\ pc = "done"
  /\ request.name = "update_sentry_issue_status"
  /\ reply.kind = "error"
  /\ Len(calls) = 1
  /\ calls[1].method = "PUT"

====
